---- MODULE Spec2Model ----
(***************************************************************************)
(* Model of internal/authmanager/client.go: the OAuth token lifecycle of   *)
(* AuthManager (GetClient, Authenticate, GetOrAuthenticateClient,          *)
(* saveToken, loadToken) over one credential file.                         *)
(*                                                                         *)
(* Time is counted in hours.  Local computation takes no time; the clock   *)
(* advances only while a caller is between calls or blocked on the         *)
(* authenticator or on the token endpoint.  The file system is reliable:   *)
(* MkdirAll, WriteFile and Remove do what they are asked.                  *)
(***************************************************************************)
EXTENDS Integers, Sequences, FiniteSets, TLC

\* ---- bounds ----
MaxTime == 49
NumProcs == 2
\* /callback requests the browser side makes in a run
MaxRequests == 2
\* requests in one call of CreateMultipleComments
MaxBatch == 2

\* ---- program constants ----
\* saveToken: ExpiresIn: 24 * time.Hour
ValidFor == 24
\* lifetime the token endpoint reports for an access token (test servers: 3600s)
ProviderTTL == 1

Procs == 1..NumProcs

VARIABLES
  now,        \* wall clock, hours
  file,       \* content of a.tokenPath, or NoFile
  active,     \* the callers that exist in this run
  pc,         \* pc[p]: position of caller p
  top,        \* top[p]: the exported method p called (last)
  phase,      \* phase[p]: position inside GetOrAuthenticateClient (0 = not in it)
  loaded,     \* GetClient's local tokenWithExpiry
  authCode,   \* Authenticate's local authCode
  token,      \* Authenticate's local token
  ret,        \* value returned by the inner call that ended last
  result,     \* value returned by the exported method
  trace,      \* history: the steps of the current/last exported call
  pre,        \* history: the file when the call started
  startNow,   \* history: the clock when the call started
  savedAt,    \* history: the clock when saveToken wrote the file
  prev,       \* history: the exported call before this one and whether it failed
  idled,      \* history: the clock moved while p was between calls
  prevCtx,    \* history: the file at the start of the previous call, and idled then
  lastWritten,\* history: the data of the WriteFile that completed last
  port,       \* who holds the local port :8089 (0 = free)
  lst,        \* lst[p]: state of the listener of p's http.Server
  sending,    \* sending[p]: codes of the /callback handlers blocked in "code <- ..."
  replying,   \* replying[p]: handlers past the send, writing the confirmation
  reqs,       \* number of /callback requests made so far
  served,     \* served[p]: requests of p's current server that got the confirmation
  cfgIn,      \* config file and process environment
  cfgOut,     \* value returned by LoadFromFile
  am,         \* the AuthManager built by New()
  requests,   \* CreateMultipleComments: the requests it was called with
  idx,        \* CreateMultipleComments: number of requests the loop is done with
  responses,  \* CreateMultipleComments: its local responses
  errors,     \* CreateMultipleComments: its local errors
  cmRet,      \* what CreateMultipleComments returned
  cmLog,      \* history: per request, the method it went to and what came back
  created,    \* the comments that exist on the document, in order of creation
  calls,      \* history: the remote calls made (Docs and Drive), in order
  toolOut     \* result of the create_anchored_comment tool call

hist2 == <<idled, prevCtx>>
netVars == <<port, lst, sending, replying, reqs, served>>
confVars == <<cfgIn, cfgOut, am>>
cmVars == <<requests, idx, responses, errors, cmRet, cmLog, created, calls, toolOut>>
extra == <<hist2, netVars, confVars, lastWritten, cmVars>>

vars == <<now, file, active, pc, top, phase, loaded, authCode, token, ret,
          result, trace, pre, startNow, savedAt, prev, extra>>

\* ---- values ----
NoFile == [kind |-> "absent"]
Garbage == [kind |-> "garbage"]
\* the file right after OpenFile(O_TRUNC)
EmptyFile == [kind |-> "empty"]
NoClient == [nil |-> TRUE]
None == [none |-> TRUE]
Nil == <<>>

AccessTokens == {"at1", "at22"}
Codes == {"abc123", ""}
\* authCode before the interactive step has returned
NoCode == "<unset>"

\* time.Time: wall clock reading plus whether a monotonic reading is attached
TimeNow(n) == [wall |-> n, mono |-> TRUE]

\* the text keeps only every other hour
MarshalTime_Truncated(t) == t.wall - (t.wall % 2)

\* time.Time.MarshalJSON: RFC 3339 text of the wall clock; the monotonic reading is dropped
MarshalTime(t) == t.wall

\* time.Time.UnmarshalJSON
UnmarshalTime(n) == [wall |-> n, mono |-> FALSE]

\* time.Time.Equal: the same instant, whatever the monotonic reading
TimeEqual(a, b) == a.wall = b.wall

\* json.Marshal(*oauth2.Token); a nil token is written as null
MarshalToken(t) ==
  IF t = None THEN None ELSE
  [access_token |-> t.AccessToken, token_type |-> t.TokenType,
   refresh_token |-> t.RefreshToken, expiry |-> MarshalTime(t.Expiry)]

UnmarshalToken(j) ==
  IF j = None THEN None ELSE
  [AccessToken |-> j.access_token, TokenType |-> j.token_type,
   RefreshToken |-> j.refresh_token, Expiry |-> UnmarshalTime(j.expiry)]

\* json.Marshal(tokenWithExpiry)
Marshal(twe) ==
  [kind |-> "json", token |-> MarshalToken(twe.Token),
   issued_at |-> MarshalTime(twe.IssuedAt), expires_in |-> twe.ExpiresIn]

\* json.Unmarshal(data, &tokenWithExpiry)
Unmarshal(data) ==
  [Token |-> UnmarshalToken(data.token),
   IssuedAt |-> UnmarshalTime(data.issued_at), ExpiresIn |-> data.expires_in]

\* the token the endpoint hands out at time n
ExchangedToken(at, n) ==
  [AccessToken |-> at, TokenType |-> "Bearer", RefreshToken |-> "rt",
   Expiry |-> TimeNow(n + ProviderTTL)]

\* credential files found on disk at the start
InitIssued == {0 - (ValidFor + 1), 0 - ValidFor, 0}
InitValidFor == {ValidFor, 0}
InitExpiry == {0 - 1, MaxTime + 1}
InitFiles ==
  {NoFile, Garbage} \cup
  { [kind |-> "json",
     token |-> [access_token |-> "at0", token_type |-> "Bearer",
                refresh_token |-> "rt0", expiry |-> e],
     issued_at |-> i, expires_in |-> v] :
    e \in InitExpiry, i \in InitIssued, v \in InitValidFor }

\* ---- pure functions of the code ----

\* time.Since(t)
Since(t, n) == n - t.wall

\* a credential is also expired once the provider's expiry has passed
IsExpired_EitherExpiry(t, n) ==
  Since(t.IssuedAt, n) > t.ExpiresIn \/ n > t.Token.Expiry.wall

\* one more hour is granted beyond the window
IsExpired_GraceHour(t, n) == Since(t.IssuedAt, n) > t.ExpiresIn + 1

\* IsExpired with a non-strict comparison
IsExpired_NonStrict(t, n) == Since(t.IssuedAt, n) >= t.ExpiresIn

\* the provider-reported expiry decides instead of the local window
IsExpired_ProviderExpiry(t, n) == n > t.Token.Expiry.wall

\* TokenWithExpiry.IsExpired
IsExpired(t, n) == Since(t.IssuedAt, n) > t.ExpiresIn

\* the short-circuit also asks for a parseable file
Exists_Parseable(f) == f # NoFile /\ f.kind = "json"

\* os.Stat(a.tokenPath) returns err == nil
Exists(f) == f # NoFile

\* the expired file is left in place
Remove_Skipped(f) == f

\* os.Remove(a.tokenPath)
Remove(f) == NoFile

\* a.loadToken(): [val, err]
loadToken(f) ==
  IF f = NoFile
    THEN [val |-> None, err |-> <<"failed to read token file", "ENOENT">>]
  ELSE IF f.kind # "json"
    THEN [val |-> None, err |-> <<"failed to unmarshal token", "SyntaxError">>]
  ELSE [val |-> Unmarshal(f), err |-> Nil]

\* the provider's expiry claims are written in place of the local ones
NewTokenWithExpiry_ProviderClaims(t, n) ==
  [Token |-> t, IssuedAt |-> t.Expiry, ExpiresIn |-> ProviderTTL]

\* the TokenWithExpiry built by saveToken at time n
NewTokenWithExpiry(t, n) ==
  [Token |-> t, IssuedAt |-> TimeNow(n), ExpiresIn |-> ValidFor]

\* a.saveToken(token): the data handed to os.WriteFile
saveToken(t, n) == Marshal(NewTokenWithExpiry(t, n))

\* len(data): the encodings differ in length by their access tokens
DataSize(d) == IF d.token = None THEN 0 ELSE Len(d.token.access_token)

\* size of the file
Size(f) ==
  IF f.kind = "json" THEN DataSize(f)
  ELSE IF f.kind = "torn" THEN f.size
  ELSE 0

\* os.WriteFile, first half: OpenFile(name, O_WRONLY|O_CREATE|O_TRUNC, perm)
Truncate(f) == EmptyFile

\* the write is atomic (temporary file and rename)
WriteAt0_Atomic(f, d) == d

\* os.WriteFile, second half: f.Write(data) at offset 0 of the file opened
\* before; bytes another writer put beyond len(data) in the meantime stay
WriteAt0(f, d) ==
  IF DataSize(d) >= Size(f) THEN d ELSE [kind |-> "torn", size |-> Size(f)]

\* a.config.Client(ctx, token)
Client(t) == [nil |-> FALSE, tok |-> t]

\* the cause is returned without the context message
Wrap_CauseOnly(msg, err) == err

\* fmt.Errorf(msg + ": %v", err): the cause is formatted into the text and dropped
Wrap_Flattened(msg, err) == <<msg>>

\* fmt.Errorf(msg + ": %w", err)
Wrap(msg, err) == <<msg>> \o err

\* the dynamic type of the innermost error of a chain: what os.ReadFile,
\* json.Unmarshal and oauth2's Exchange return is typed, what fmt.Errorf
\* without %w or a test authenticator's errors.New returns is a bare message
LeafType(s) ==
  CASE s = "ENOENT" -> "*fs.PathError"
    [] s = "SyntaxError" -> "*json.SyntaxError"
    [] s = "oauth2: cannot fetch token" -> "*oauth2.RetrieveError"
    [] OTHER -> "*errors.errorString"

\* what errors.Unwrap, errors.Is and errors.As can see of an error: the chain
\* of dynamic types, every layer above the innermost being a *fmt.wrapError
Kinds(err) ==
  [i \in 1..Len(err) |->
     IF i < Len(err) THEN "*fmt.wrapError" ELSE LeafType(err[i])]

\* the failure condition a call site can tell from the types alone
Classify(err) ==
  LET k == Kinds(err) IN
    CASE k[Len(k)] = "*fs.PathError" -> "no file"
      [] k[Len(k)] = "*json.SyntaxError" -> "corrupt"
      [] k[Len(k)] = "*oauth2.RetrieveError" -> "exchange"
      [] OTHER -> IF Len(k) >= 2 THEN "interactive" ELSE "expired"

Log(p, ev) == trace' = [trace EXCEPT ![p] = Append(@, ev)]

\* a.GetClient(ctx) run alone on file f at time n: what it returns and the
\* file it leaves
GetClient(f, n) ==
  LET r == loadToken(f) IN
    IF r.err # Nil
      THEN [client |-> NoClient, err |-> Wrap("no saved token found", r.err), file |-> f]
    ELSE IF IsExpired(r.val, n)
      THEN [client |-> NoClient, err |-> <<"token has expired">>, file |-> Remove(f)]
    ELSE [client |-> Client(r.val.Token), err |-> Nil, file |-> f]

\* ---- initial state ----
InitLocals ==
  /\ pc = [p \in Procs |-> "idle"]
  /\ top = [p \in Procs |-> "none"]
  /\ phase = [p \in Procs |-> 0]
  /\ loaded = [p \in Procs |-> None]
  /\ authCode = [p \in Procs |-> NoCode]
  /\ token = [p \in Procs |-> None]
  /\ ret = [p \in Procs |-> None]
  /\ result = [p \in Procs |-> None]
  /\ trace = [p \in Procs |-> <<>>]
  /\ pre = [p \in Procs |-> None]
  /\ startNow = [p \in Procs |-> 0]
  /\ savedAt = [p \in Procs |-> 0]
  /\ prev = [p \in Procs |-> None]
  /\ idled = [p \in Procs |-> FALSE]
  /\ prevCtx = [p \in Procs |-> None]
  /\ lastWritten = None

\* no http.Server exists, nobody holds the port
InitNet ==
  /\ port = 0
  /\ lst = [p \in Procs |-> "none"]
  /\ sending = [p \in Procs |-> <<>>]
  /\ replying = [p \in Procs |-> 0]
  /\ reqs = 0
  /\ served = [p \in Procs |-> 0]

\* configuration loading is not part of this run
InitConfDone ==
  /\ cfgIn = None
  /\ cfgOut = None
  /\ am = None

\* no comment has been asked for
InitNoComments ==
  /\ requests = <<>>
  /\ idx = 0
  /\ responses = <<>>
  /\ errors = <<>>
  /\ cmRet = None
  /\ cmLog = <<>>
  /\ created = <<>>
  /\ calls = <<>>
  /\ toolOut = None

Init ==
  /\ now = 0
  /\ file \in InitFiles
  /\ active = {1}
  /\ InitLocals
  /\ InitNet
  /\ InitConfDone
  /\ InitNoComments

\* ---- the exported methods are entered ----
Enter(p, name, ph) ==
  /\ p \in active
  /\ pc[p] = "idle"
  /\ top' = [top EXCEPT ![p] = name]
  /\ phase' = [phase EXCEPT ![p] = ph]
  /\ prev' = [prev EXCEPT ![p] =
                IF top[p] = "none" THEN None
                ELSE [name |-> top[p], failed |-> result[p].err # Nil]]
  /\ loaded' = [loaded EXCEPT ![p] = None]
  /\ authCode' = [authCode EXCEPT ![p] = NoCode]
  /\ token' = [token EXCEPT ![p] = None]
  /\ ret' = [ret EXCEPT ![p] = None]
  /\ result' = [result EXCEPT ![p] = None]
  /\ trace' = [trace EXCEPT ![p] = <<>>]
  /\ pre' = [pre EXCEPT ![p] = file]
  /\ startNow' = [startNow EXCEPT ![p] = now]
  /\ savedAt' = [savedAt EXCEPT ![p] = 0]
  /\ prevCtx' = [prevCtx EXCEPT ![p] =
                   IF top[p] = "none" THEN None
                   ELSE [file |-> pre[p], idled |-> idled[p]]]
  /\ idled' = [idled EXCEPT ![p] = FALSE]
  /\ UNCHANGED <<now, file, active, netVars, confVars, cmVars, lastWritten>>

CallGetClient(p) ==
  /\ Enter(p, "GetClient", 0)
  /\ pc' = [pc EXCEPT ![p] = "gc_load"]

CallAuthenticate(p) ==
  /\ Enter(p, "Authenticate", 0)
  /\ pc' = [pc EXCEPT ![p] = "au_stat"]

\* GetOrAuthenticateClient: client, err := a.GetClient(ctx)
CallGetOrAuthenticateClient(p) ==
  /\ Enter(p, "GetOrAuthenticateClient", 1)
  /\ pc' = [pc EXCEPT ![p] = "gc_load"]

\* ---- GetClient ----

\* GetClient removes a file it cannot parse
GC_Load_RemovesMalformed(p) ==
  /\ p \in active
  /\ pc[p] = "gc_load"
  /\ LET r == loadToken(file) IN
       IF r.err # Nil
         THEN /\ ret' = [ret EXCEPT ![p] =
                    [client |-> NoClient, err |-> Wrap("no saved token found", r.err)]]
              /\ pc' = [pc EXCEPT ![p] = "gc_ret"]
              /\ file' = Remove(file)
              /\ UNCHANGED loaded
         ELSE /\ loaded' = [loaded EXCEPT ![p] = r.val]
              /\ pc' = [pc EXCEPT ![p] = "gc_check"]
              /\ UNCHANGED <<ret, file>>
  /\ Log(p, "GetClient")
  /\ UNCHANGED <<now, active, top, phase, authCode, token, result,
                 pre, startNow, savedAt, prev, extra>>

\* tokenWithExpiry, err := a.loadToken(); if err != nil { return nil, "no saved token found: %w" }
GC_Load(p) ==
  /\ p \in active
  /\ pc[p] = "gc_load"
  /\ LET r == loadToken(file) IN
       IF r.err # Nil
         THEN /\ ret' = [ret EXCEPT ![p] =
                    [client |-> NoClient, err |-> Wrap("no saved token found", r.err)]]
              /\ pc' = [pc EXCEPT ![p] = "gc_ret"]
              /\ UNCHANGED loaded
         ELSE /\ loaded' = [loaded EXCEPT ![p] = r.val]
              /\ pc' = [pc EXCEPT ![p] = "gc_check"]
              /\ UNCHANGED ret
  /\ Log(p, "GetClient")
  /\ UNCHANGED <<now, file, active, top, phase, authCode, token, result,
                 pre, startNow, savedAt, prev, extra>>

\* every successful GetClient starts the validity window anew
GC_Check_Refreshes(p) ==
  /\ p \in active
  /\ pc[p] = "gc_check"
  /\ IF IsExpired(loaded[p], now)
       THEN /\ file' = Remove(file)
            /\ ret' = [ret EXCEPT ![p] =
                  [client |-> NoClient, err |-> <<"token has expired">>]]
            /\ Log(p, "remove")
            /\ UNCHANGED lastWritten
       ELSE /\ ret' = [ret EXCEPT ![p] =
                  [client |-> Client(loaded[p].Token), err |-> Nil]]
            /\ file' = saveToken(loaded[p].Token, now)
            /\ lastWritten' = saveToken(loaded[p].Token, now)
            /\ UNCHANGED trace
  /\ pc' = [pc EXCEPT ![p] = "gc_ret"]
  /\ UNCHANGED <<now, active, top, phase, loaded, authCode, token, result,
                 pre, startNow, savedAt, prev, hist2, netVars, confVars, cmVars>>

\* if tokenWithExpiry.IsExpired() { os.Remove(a.tokenPath); return nil, "token has expired" }
\* client := a.config.Client(ctx, tokenWithExpiry.Token); return client, nil
GC_Check(p) ==
  /\ p \in active
  /\ pc[p] = "gc_check"
  /\ IF IsExpired(loaded[p], now)
       THEN /\ file' = Remove(file)
            /\ ret' = [ret EXCEPT ![p] =
                  [client |-> NoClient, err |-> <<"token has expired">>]]
            /\ Log(p, "remove")
       ELSE /\ ret' = [ret EXCEPT ![p] =
                  [client |-> Client(loaded[p].Token), err |-> Nil]]
            /\ UNCHANGED <<file, trace>>
  /\ pc' = [pc EXCEPT ![p] = "gc_ret"]
  /\ UNCHANGED <<now, active, top, phase, loaded, authCode, token, result,
                 pre, startNow, savedAt, prev, extra>>

\* GetOrAuthenticateClient authenticates again whenever GetClient fails
GC_Return_Retries(p) ==
  /\ p \in active
  /\ pc[p] = "gc_ret"
  /\ Log(p, IF ret[p].err = Nil THEN "GetClient:ok" ELSE "GetClient:err")
  /\ IF phase[p] \in {1, 3} /\ ret[p].err # Nil
       THEN /\ phase' = [phase EXCEPT ![p] = 2]
            /\ pc' = [pc EXCEPT ![p] = "au_stat"]
            /\ UNCHANGED result
       ELSE /\ result' = [result EXCEPT ![p] = ret[p]]
            /\ pc' = [pc EXCEPT ![p] = "idle"]
            /\ UNCHANGED phase
  /\ UNCHANGED <<now, file, active, top, loaded, authCode, token, ret,
                 pre, startNow, savedAt, prev, extra>>

\* GetClient returns: to its caller, or into GetOrAuthenticateClient
\*   client, err := a.GetClient(ctx); if err == nil { return client, nil }
\*   ... return a.GetClient(ctx)
GC_Return(p) ==
  /\ p \in active
  /\ pc[p] = "gc_ret"
  /\ Log(p, IF ret[p].err = Nil THEN "GetClient:ok" ELSE "GetClient:err")
  /\ IF phase[p] = 1 /\ ret[p].err # Nil
       THEN /\ phase' = [phase EXCEPT ![p] = 2]
            /\ pc' = [pc EXCEPT ![p] = "au_stat"]
            /\ UNCHANGED result
       ELSE /\ result' = [result EXCEPT ![p] = ret[p]]
            /\ pc' = [pc EXCEPT ![p] = "idle"]
            /\ UNCHANGED phase
  /\ UNCHANGED <<now, file, active, top, loaded, authCode, token, ret,
                 pre, startNow, savedAt, prev, extra>>

\* ---- Authenticate ----

\* Authenticate runs the flow whether the file exists or not
AU_Stat_NoShortCircuit(p) ==
  /\ p \in active
  /\ pc[p] = "au_stat"
  /\ pc' = [pc EXCEPT ![p] = "au_auth"]
  /\ Log(p, "Authenticate")
  /\ UNCHANGED <<now, file, active, top, phase, loaded, authCode, token, ret,
                 result, pre, startNow, savedAt, prev, extra>>

\* if _, err := os.Stat(a.tokenPath); err == nil { return nil }
\* authURL := a.config.AuthCodeURL("state", oauth2.AccessTypeOffline)
AU_Stat(p) ==
  /\ p \in active
  /\ pc[p] = "au_stat"
  /\ IF Exists(file)
       THEN /\ ret' = [ret EXCEPT ![p] = [client |-> NoClient, err |-> Nil]]
            /\ pc' = [pc EXCEPT ![p] = "au_ret"]
       ELSE /\ pc' = [pc EXCEPT ![p] = "au_auth"]
            /\ UNCHANGED ret
  /\ Log(p, "Authenticate")
  /\ UNCHANGED <<now, file, active, top, phase, loaded, authCode, token, result,
                 pre, startNow, savedAt, prev, extra>>

\* authCode, err := a.authenticator.Authenticate(authURL)
\* if err != nil { return "authentication failed: %w" }
AU_Authenticator(p) ==
  /\ p \in active
  /\ pc[p] = "au_auth"
  /\ \E code \in Codes, ok \in BOOLEAN :
       IF ok
         THEN /\ authCode' = [authCode EXCEPT ![p] = code]
              /\ pc' = [pc EXCEPT ![p] = "au_exchange"]
              /\ Log(p, "authenticator:ok")
              /\ UNCHANGED ret
         ELSE /\ code = ""
              /\ ret' = [ret EXCEPT ![p] =
                    [client |-> NoClient,
                     err |-> Wrap("authentication failed", <<"authenticator error">>)]]
              /\ pc' = [pc EXCEPT ![p] = "au_ret"]
              /\ Log(p, "authenticator:err")
              /\ UNCHANGED authCode
  /\ UNCHANGED <<now, file, active, top, phase, loaded, token, result,
                 pre, startNow, savedAt, prev, extra>>

\* the error of Exchange is not looked at
AU_Exchange_ErrIgnored(p) ==
  /\ p \in active
  /\ pc[p] = "au_exchange"
  /\ \/ \E at \in AccessTokens :
          /\ token' = [token EXCEPT ![p] = ExchangedToken(at, now)]
          /\ Log(p, "exchange:ok")
     \/ /\ Log(p, "exchange:err")
        /\ UNCHANGED token
  /\ pc' = [pc EXCEPT ![p] = "au_save"]
  /\ UNCHANGED <<now, file, active, top, phase, loaded, authCode, result,
                 pre, startNow, savedAt, prev, ret, extra>>

\* token, err := a.config.Exchange(context.Background(), authCode)
\* if err != nil { return err }
AU_Exchange(p) ==
  /\ p \in active
  /\ pc[p] = "au_exchange"
  /\ \/ \E at \in AccessTokens :
          /\ token' = [token EXCEPT ![p] = ExchangedToken(at, now)]
          /\ pc' = [pc EXCEPT ![p] = "au_save"]
          /\ Log(p, "exchange:ok")
          /\ UNCHANGED ret
     \/ /\ ret' = [ret EXCEPT ![p] =
              [client |-> NoClient, err |-> <<"oauth2: cannot fetch token">>]]
        /\ pc' = [pc EXCEPT ![p] = "au_ret"]
        /\ Log(p, "exchange:err")
        /\ UNCHANGED token
  /\ UNCHANGED <<now, file, active, top, phase, loaded, authCode, result,
                 pre, startNow, savedAt, prev, extra>>

\* return a.saveToken(token): MkdirAll, json.Marshal, and os.WriteFile opens
\* the file, which empties it
AU_SaveOpen(p) ==
  /\ p \in active
  /\ pc[p] = "au_save"
  /\ file' = Truncate(file)
  /\ pc' = [pc EXCEPT ![p] = "au_write"]
  /\ UNCHANGED <<now, active, top, phase, loaded, authCode, token, ret, result,
                 trace, pre, startNow, savedAt, prev, extra>>

\* os.WriteFile writes the data and closes the file; saveToken returns nil
AU_Save(p) ==
  /\ p \in active
  /\ pc[p] = "au_write"
  /\ file' = WriteAt0(file, saveToken(token[p], now))
  /\ savedAt' = [savedAt EXCEPT ![p] = now]
  /\ ret' = [ret EXCEPT ![p] = [client |-> NoClient, err |-> Nil]]
  /\ pc' = [pc EXCEPT ![p] = "au_ret"]
  /\ Log(p, "saveToken")
  /\ lastWritten' = saveToken(token[p], now)
  /\ UNCHANGED <<now, active, top, phase, loaded, authCode, token, result,
                 pre, startNow, prev, hist2, netVars, confVars, cmVars>>

\* GetOrAuthenticateClient returns right after Authenticate, without a client
AU_Return_NoSecondGetClient(p) ==
  /\ p \in active
  /\ pc[p] = "au_ret"
  /\ Log(p, IF ret[p].err = Nil THEN "Authenticate:ok" ELSE "Authenticate:err")
  /\ result' = [result EXCEPT ![p] =
        IF phase[p] = 2 /\ ret[p].err # Nil
          THEN [client |-> NoClient, err |-> Wrap("authentication failed", ret[p].err)]
          ELSE ret[p]]
  /\ pc' = [pc EXCEPT ![p] = "idle"]
  /\ UNCHANGED <<now, file, active, top, phase, loaded, authCode, token, ret,
                 pre, startNow, savedAt, prev, extra>>

\* Authenticate returns: to its caller, or into GetOrAuthenticateClient
\*   if err := a.Authenticate(); err != nil { return nil, "authentication failed: %w" }
\*   return a.GetClient(ctx)
AU_Return(p) ==
  /\ p \in active
  /\ pc[p] = "au_ret"
  /\ Log(p, IF ret[p].err = Nil THEN "Authenticate:ok" ELSE "Authenticate:err")
  /\ IF phase[p] = 2
       THEN IF ret[p].err # Nil
              THEN /\ result' = [result EXCEPT ![p] =
                         [client |-> NoClient,
                          err |-> Wrap("authentication failed", ret[p].err)]]
                   /\ pc' = [pc EXCEPT ![p] = "idle"]
                   /\ UNCHANGED phase
              ELSE /\ phase' = [phase EXCEPT ![p] = 3]
                   /\ pc' = [pc EXCEPT ![p] = "gc_load"]
                   /\ UNCHANGED result
       ELSE /\ result' = [result EXCEPT ![p] = ret[p]]
            /\ pc' = [pc EXCEPT ![p] = "idle"]
            /\ UNCHANGED phase
  /\ UNCHANGED <<now, file, active, top, loaded, authCode, token, ret,
                 pre, startNow, savedAt, prev, extra>>

\* ---- the clock ----
TickSteps == {ValidFor, ValidFor + 1}
Blocking == {"idle", "au_auth", "au_exchange"}

Tick ==
  /\ \A p \in active : pc[p] \in Blocking
  /\ \E d \in TickSteps :
       /\ now + d <= MaxTime
       /\ now' = now + d
  /\ idled' = [p \in Procs |-> idled[p] \/ (p \in active /\ pc[p] = "idle")]
  /\ UNCHANGED <<file, active, pc, top, phase, loaded, authCode, token, ret,
                 result, trace, pre, startNow, savedAt, prev, prevCtx,
                 netVars, confVars, cmVars, lastWritten>>

Next ==
  \/ \E p \in Procs : CallGetClient(p)
  \/ \E p \in Procs : CallAuthenticate(p)
  \/ \E p \in Procs : CallGetOrAuthenticateClient(p)
  \/ \E p \in Procs : GC_Load(p)
  \/ \E p \in Procs : GC_Check(p)
  \/ \E p \in Procs : GC_Return(p)
  \/ \E p \in Procs : AU_Stat(p)
  \/ \E p \in Procs : AU_Authenticator(p)
  \/ \E p \in Procs : AU_Exchange(p)
  \/ \E p \in Procs : AU_SaveOpen(p)
  \/ \E p \in Procs : AU_Save(p)
  \/ \E p \in Procs : AU_Return(p)
  \/ Tick

Spec == Init /\ [][Next]_vars

\* a fresh installation: the program has written nothing yet
InitFresh ==
  /\ now = 0
  /\ file = NoFile
  /\ active = {1}
  /\ InitLocals
  /\ InitNet
  /\ InitConfDone
  /\ InitNoComments

SpecFresh == InitFresh /\ [][Next]_vars

\* ---- BrowserAuthenticator.Authenticate ----

\* what a step of the interactive step leaves alone
callVars == <<now, file, active, top, phase, loaded, token, ret, result,
              pre, startNow, savedAt, prev, hist2, confVars, cmVars, lastWritten>>

\* code := make(chan string); mux.HandleFunc("/callback", ...)
\* server := &http.Server{Addr: ":8089", Handler: mux}; go server.ListenAndServe()
B_Start(p) ==
  /\ p \in active
  /\ pc[p] = "au_auth"
  /\ lst' = [lst EXCEPT ![p] = "starting"]
  /\ sending' = [sending EXCEPT ![p] = <<>>]
  /\ replying' = [replying EXCEPT ![p] = 0]
  /\ served' = [served EXCEPT ![p] = 0]
  /\ pc' = [pc EXCEPT ![p] = "b_wait"]
  /\ UNCHANGED <<callVars, authCode, trace, port, reqs>>

\* the goroutine of ListenAndServe binds :8089; the error it returns when the
\* port is taken is dropped with the goroutine
B_Listen(p) ==
  /\ p \in active
  /\ lst[p] = "starting"
  /\ IF port = 0
       THEN /\ port' = p
            /\ lst' = [lst EXCEPT ![p] = "listening"]
       ELSE /\ lst' = [lst EXCEPT ![p] = "failed"]
            /\ UNCHANGED port
  /\ UNCHANGED <<callVars, pc, authCode, trace, sending, replying, reqs, served>>

\* the browser is redirected to http://localhost:8089/callback?code=...: the
\* server holding the port accepts the request and its handler reaches
\* "code <- r.URL.Query().Get("code")"
Callback ==
  /\ reqs < MaxRequests
  /\ port # 0
  /\ lst[port] = "listening"
  /\ \E c \in Codes :
       sending' = [sending EXCEPT ![port] = Append(@, c)]
  /\ reqs' = reqs + 1
  /\ UNCHANGED <<callVars, pc, authCode, trace, port, lst, replying, served>>

\* the wait for the code is given up after a while
B_Recv_TimesOut(p) ==
  /\ p \in active
  /\ pc[p] = "b_wait"
  /\ \/ /\ sending[p] # <<>>
        /\ authCode' = [authCode EXCEPT ![p] = Head(sending[p])]
        /\ sending' = [sending EXCEPT ![p] = Tail(@)]
        /\ replying' = [replying EXCEPT ![p] = @ + 1]
     \/ /\ sending[p] = <<>>
        /\ UNCHANGED <<authCode, sending, replying>>
  /\ pc' = [pc EXCEPT ![p] = "b_shutdown"]
  /\ UNCHANGED <<callVars, trace, port, lst, reqs, served>>

\* authCode := <-code: the channel is unbuffered, one blocked handler gets through
B_Recv(p) ==
  /\ p \in active
  /\ pc[p] = "b_wait"
  /\ sending[p] # <<>>
  /\ authCode' = [authCode EXCEPT ![p] = Head(sending[p])]
  /\ sending' = [sending EXCEPT ![p] = Tail(@)]
  /\ replying' = [replying EXCEPT ![p] = @ + 1]
  /\ pc' = [pc EXCEPT ![p] = "b_shutdown"]
  /\ UNCHANGED <<callVars, trace, port, lst, reqs, served>>

\* fmt.Fprintf(w, "...") in the handler whose send got through; the handler returns
B_Reply(p) ==
  /\ p \in active
  /\ replying[p] > 0
  /\ replying' = [replying EXCEPT ![p] = @ - 1]
  /\ served' = [served EXCEPT ![p] = @ + 1]
  /\ UNCHANGED <<callVars, pc, authCode, trace, port, lst, sending, reqs>>

\* Shutdown leaves the listener open
B_ShutdownStart_KeepsListening(p) ==
  /\ p \in active
  /\ pc[p] = "b_shutdown"
  /\ pc' = [pc EXCEPT ![p] = "b_drain"]
  /\ UNCHANGED <<callVars, authCode, trace, netVars>>

\* server.Shutdown(context.Background()), first half: the listener is closed
B_ShutdownStart(p) ==
  /\ p \in active
  /\ pc[p] = "b_shutdown"
  /\ lst' = [lst EXCEPT ![p] = "closed"]
  /\ port' = IF port = p THEN 0 ELSE port
  /\ pc' = [pc EXCEPT ![p] = "b_drain"]
  /\ UNCHANGED <<callVars, authCode, trace, sending, replying, reqs, served>>

\* an empty code is reported as an error of the interactive step
B_ShutdownDone_RejectsEmptyCode(p) ==
  /\ p \in active
  /\ pc[p] = "b_drain"
  /\ sending[p] = <<>>
  /\ replying[p] = 0
  /\ IF authCode[p] = ""
       THEN /\ ret' = [ret EXCEPT ![p] =
                  [client |-> NoClient,
                   err |-> Wrap("authentication failed", <<"no code in callback">>)]]
            /\ pc' = [pc EXCEPT ![p] = "au_ret"]
            /\ Log(p, "authenticator:err")
       ELSE /\ pc' = [pc EXCEPT ![p] = "au_exchange"]
            /\ Log(p, "authenticator:ok")
            /\ UNCHANGED ret
  /\ UNCHANGED <<now, file, active, top, phase, loaded, token, result,
                 pre, startNow, savedAt, prev, hist2, confVars, cmVars,
                 lastWritten, authCode, netVars>>

\* server.Shutdown, second half: it returns once no handler is running (the
\* context never ends the wait); return authCode, nil
B_ShutdownDone(p) ==
  /\ p \in active
  /\ pc[p] = "b_drain"
  /\ sending[p] = <<>>
  /\ replying[p] = 0
  /\ pc' = [pc EXCEPT ![p] = "au_exchange"]
  /\ Log(p, "authenticator:ok")
  /\ UNCHANGED <<callVars, authCode, netVars>>

\* two callers of Authenticate with the default interactive step, no token file
Racers == {1, 2}

InitBrowser ==
  /\ now = 0
  /\ file = NoFile
  /\ active = Racers
  /\ InitLocals
  /\ InitNet
  /\ InitConfDone
  /\ InitNoComments

NextB ==
  \/ \E p \in Procs : CallAuthenticate(p)
  \/ \E p \in Procs : CallGetOrAuthenticateClient(p)
  \/ \E p \in Procs : GC_Load(p)
  \/ \E p \in Procs : GC_Check(p)
  \/ \E p \in Procs : GC_Return(p)
  \/ \E p \in Procs : AU_Stat(p)
  \/ \E p \in Procs : B_Start(p)
  \/ \E p \in Procs : B_Listen(p)
  \/ Callback
  \/ \E p \in Procs : B_Recv(p)
  \/ \E p \in Procs : B_Reply(p)
  \/ \E p \in Procs : B_ShutdownStart(p)
  \/ \E p \in Procs : B_ShutdownDone(p)
  \/ \E p \in Procs : AU_Exchange(p)
  \/ \E p \in Procs : AU_SaveOpen(p)
  \/ \E p \in Procs : AU_Save(p)
  \/ \E p \in Procs : AU_Return(p)

\* every goroutine that can take a step is scheduled eventually; when the
\* browser makes a request is up to the user
FairB ==
  \A p \in Procs :
    /\ WF_vars(GC_Load(p))
    /\ WF_vars(GC_Check(p))
    /\ WF_vars(GC_Return(p))
    /\ WF_vars(AU_Stat(p))
    /\ WF_vars(B_Start(p))
    /\ WF_vars(B_Listen(p))
    /\ WF_vars(B_Recv(p))
    /\ WF_vars(B_Reply(p))
    /\ WF_vars(B_ShutdownStart(p))
    /\ WF_vars(B_ShutdownDone(p))
    /\ WF_vars(AU_Exchange(p))
    /\ WF_vars(AU_SaveOpen(p))
    /\ WF_vars(AU_Save(p))
    /\ WF_vars(AU_Return(p))

SpecBrowser == InitBrowser /\ [][NextB]_vars /\ FairB

\* ---- concurrent Authenticate on one token path ----

InitConc ==
  /\ now = 0
  /\ file = NoFile
  /\ active = Racers
  /\ InitLocals
  /\ InitNet
  /\ InitConfDone
  /\ InitNoComments

NextC ==
  \/ \E p \in Procs : CallAuthenticate(p)
  \/ \E p \in Procs : AU_Stat(p)
  \/ \E p \in Procs : AU_Authenticator(p)
  \/ \E p \in Procs : AU_Exchange(p)
  \/ \E p \in Procs : AU_SaveOpen(p)
  \/ \E p \in Procs : AU_Save(p)
  \/ \E p \in Procs : AU_Return(p)

SpecConc == InitConc /\ [][NextC]_vars

\* ---- two processes using an expired credential on one token path ----

\* the credential the processes find: issued 25h ago
ExpiredFile ==
  [kind |-> "json",
   token |-> [access_token |-> "at0", token_type |-> "Bearer",
              refresh_token |-> "rt0", expiry |-> 0 - 1],
   issued_at |-> 0 - (ValidFor + 1), expires_in |-> ValidFor]

InitRace ==
  /\ now = 0
  /\ file = ExpiredFile
  /\ active = Racers
  /\ InitLocals
  /\ InitNet
  /\ InitConfDone
  /\ InitNoComments

NextRace ==
  \/ \E p \in Procs : CallGetClient(p)
  \/ \E p \in Procs : CallGetOrAuthenticateClient(p)
  \/ \E p \in Procs : GC_Load(p)
  \/ \E p \in Procs : GC_Check(p)
  \/ \E p \in Procs : GC_Return(p)
  \/ \E p \in Procs : AU_Stat(p)
  \/ \E p \in Procs : AU_Authenticator(p)
  \/ \E p \in Procs : AU_Exchange(p)
  \/ \E p \in Procs : AU_SaveOpen(p)
  \/ \E p \in Procs : AU_Save(p)
  \/ \E p \in Procs : AU_Return(p)

SpecRace == InitRace /\ [][NextRace]_vars

\* ---- configuration: LoadFromFile and New ----

\* a variable that is not in the environment, a key that is not in the file
Unset == "<unset>"

Keys == {"GOOGLE_CLIENT_ID", "GOOGLE_CLIENT_SECRET", "GOOGLE_TEST_DOC_ID"}

\* docs.DocumentsReadonlyScope, docs.DriveReadonlyScope (google.golang.org/api/docs/v1)
DocumentsReadonlyScope == "https://www.googleapis.com/auth/documents.readonly"
DriveReadonlyScope == "https://www.googleapis.com/auth/drive.readonly"

\* the config file: missing, not parseable as an env file, or read
FileStates == {"missing", "unparseable", "read"}

\* what the file says for a key, what the environment holds for a variable
FileValues(k) == IF k = "GOOGLE_TEST_DOC_ID" THEN {Unset} ELSE {Unset, "", "file:" \o k}
EnvValues(k) == IF k = "GOOGLE_TEST_DOC_ID" THEN {Unset, "env:" \o k} ELSE {Unset, "", "env:" \o k}

\* os.UserHomeDir(): $HOME as path elements, or the error of a missing $HOME
NoHome == <<>>
Homes == {NoHome, <<"home", "u">>}

ConfigInputs ==
  [fstate : FileStates,
   file : {f \in [Keys -> UNION {FileValues(k) : k \in Keys}] :
             \A k \in Keys : f[k] \in FileValues(k)},
   env : {e \in [Keys -> UNION {EnvValues(k) : k \in Keys}] :
             \A k \in Keys : e[k] \in EnvValues(k)},
   home : Homes]

\* os.Getenv(key)
Getenv(in, k) == IF in.env[k] = Unset THEN "" ELSE in.env[k]

\* v.GetString(key) after ReadInConfig and AutomaticEnv: the environment
\* variable when it is set and not empty, else the value the file gave when
\* the file was read, else ""
GetString(in, k) ==
  IF in.env[k] # Unset /\ in.env[k] # "" THEN in.env[k]
  ELSE IF in.fstate = "read" /\ in.file[k] # Unset THEN in.file[k]
  ELSE ""

\* the secret is validated before the client id
Validate_SecretFirst(c) ==
  IF c.ClientSecret = "" THEN <<"GOOGLE_CLIENT_SECRET is required">>
  ELSE IF c.ClientID = "" THEN <<"GOOGLE_CLIENT_ID is required">>
  ELSE Nil

\* LoadFromFile: validation of the required items
Validate(c) ==
  IF c.ClientID = "" THEN <<"GOOGLE_CLIENT_ID is required">>
  ELSE IF c.ClientSecret = "" THEN <<"GOOGLE_CLIENT_SECRET is required">>
  ELSE Nil

\* config.LoadFromFile(configFile); a file that cannot be read is only warned about
LoadFromFile ==
  /\ cfgIn # None
  /\ cfgOut = None
  /\ LET c == [ClientID |-> GetString(cfgIn, "GOOGLE_CLIENT_ID"),
               ClientSecret |-> GetString(cfgIn, "GOOGLE_CLIENT_SECRET"),
               TestDocID |-> GetString(cfgIn, "GOOGLE_TEST_DOC_ID")] IN
       cfgOut' = IF Validate(c) # Nil
                   THEN [config |-> None, err |-> Validate(c)]
                   ELSE [config |-> c, err |-> Nil]
  /\ UNCHANGED <<now, file, active, pc, top, phase, loaded, authCode, token,
                 ret, result, trace, pre, startNow, savedAt, prev, hist2,
                 netVars, lastWritten, cfgIn, am,
                 cmVars>>

\* getTokenPath(): filepath.Join(home, ".google-doc-review", "token.json")
getTokenPath(home) == home \o <<".google-doc-review", "token.json">>

\* NewWithConfig(clientID, clientSecret, authenticator)
NewWithConfig(clientID, clientSecret, home) ==
  [fatal |-> FALSE,
   ClientID |-> clientID,
   ClientSecret |-> clientSecret,
   RedirectURL |-> "http://localhost:8089/callback",
   Scopes |-> <<DocumentsReadonlyScope, DriveReadonlyScope>>,
   tokenPath |-> getTokenPath(home)]

\* authmanager.New(): NewWithAuthenticator reads the two variables with
\* os.Getenv; getTokenPath ends the process (log.Fatal) without a home directory
New ==
  /\ cfgIn # None
  /\ am = None
  /\ am' = IF cfgIn.home = NoHome
             THEN [fatal |-> TRUE]
             ELSE NewWithConfig(Getenv(cfgIn, "GOOGLE_CLIENT_ID"),
                                Getenv(cfgIn, "GOOGLE_CLIENT_SECRET"),
                                cfgIn.home)
  /\ UNCHANGED <<now, file, active, pc, top, phase, loaded, authCode, token,
                 ret, result, trace, pre, startNow, savedAt, prev, hist2,
                 netVars, lastWritten, cfgIn, cfgOut,
                 cmVars>>

InitConfig ==
  /\ now = 0
  /\ file = NoFile
  /\ active = {1}
  /\ InitLocals
  /\ InitNet
  /\ cfgIn \in ConfigInputs
  /\ cfgOut = None
  /\ am = None
  /\ InitNoComments

NextConfig ==
  \/ LoadFromFile
  \/ New

SpecConfig == InitConfig /\ [][NextConfig]_vars

\* ---- comments: CommentManager and the create_anchored_comment tool ----

\* texts are sequences of one-byte letters
QuotedTexts == {<<>>, <<"c", "b">>, <<"z">>}
LineNumbers == {0 - 1, 0, 2}

\* CommentRequest
Requests ==
  [FileID : {"doc1"}, Content : {"note"}, QuotedText : QuotedTexts,
   LineNumber : LineNumbers, LineLength : {1}]

\* the request lists CreateMultipleComments is called with
Batches == UNION {[1..n -> Requests] : n \in 0..MaxBatch}

\* what docsService.Documents.Get answers: an error, or the text runs of the body
Docs ==
  {[ok |-> FALSE, runs |-> <<>>],
   [ok |-> TRUE, runs |-> <<>>],
   [ok |-> TRUE, runs |-> <<[StartIndex |-> 1, Content |-> <<"a", "b">>],
                            [StartIndex |-> 3, Content |-> <<"b", "c", "b">>]>>]}

\* strings.Index(s, t): first offset of t in s, counted from 0, or -1
Index(str, t) ==
  LET at == {i \in 0..(Len(str) - Len(t)) : SubSeq(str, i + 1, i + Len(t)) = t} IN
    IF at = {} THEN 0 - 1 ELSE CHOOSE i \in at : \A j \in at : i <= j

\* strings.Contains(s, t)
Contains(str, t) == Index(str, t) >= 0

\* cm.FindTextPosition(ctx, fileID, searchText) on the document the service returns
FindTextPosition(doc, searchText) ==
  IF ~doc.ok THEN [pos |-> None, err |-> <<"failed to get document", "googleapi error">>]
  ELSE LET hits == {k \in 1..Len(doc.runs) : Contains(doc.runs[k].Content, searchText)} IN
    IF hits = {} THEN [pos |-> None, err |-> <<"text not found">>]
    ELSE LET k == CHOOSE h \in hits : \A g \in hits : h <= g
             offset == Index(doc.runs[k].Content, searchText) IN
      [pos |-> [StartIndex |-> doc.runs[k].StartIndex + offset,
                EndIndex |-> doc.runs[k].StartIndex + offset + Len(searchText),
                SegmentID |-> ""],
       err |-> Nil]

\* the anchor of a comment that has none
NoAnchor == [region |-> "none"]

\* createAnchorJSON(lineNumber)
createAnchorJSON(lineNumber) ==
  [region |-> "line", kind |-> "drive#commentRegion", line |-> lineNumber, rev |-> "head"]

\* createAnchorJSONWithPosition(pos)
createAnchorJSONWithPosition(pos) ==
  [region |-> "range", startIndex |-> pos.StartIndex, endIndex |-> pos.EndIndex]

\* &drive.Comment{...}; QuotedFileContent stays nil for an empty quoted text
DriveComment(content, anchor, quoted) ==
  [Content |-> content, Anchor |-> anchor, QuotedFileContent |-> quoted]

\* &CommentResponse{...} for the comment the service created as number id
CommentResponse(id, comment) ==
  [CommentID |-> id, Content |-> comment.Content, Anchor |-> comment.Anchor]

\* no comment is submitted when the quoted text cannot be anchored
CreateComment_AnchorRequired(req, doc, driveOk, id) ==
  LET found == FindTextPosition(doc, req.QuotedText)
      comment == DriveComment(req.Content,
                   IF req.QuotedText # <<>> THEN createAnchorJSONWithPosition(found.pos)
                   ELSE NoAnchor, req.QuotedText)
      remote == IF req.QuotedText # <<>> THEN <<"documents.get">> ELSE <<>> IN
    IF req.QuotedText # <<>> /\ found.err # Nil
      THEN [resp |-> None, err |-> Wrap("failed to find text", found.err),
            remote |-> remote, made |-> <<>>]
    ELSE IF driveOk
      THEN [resp |-> CommentResponse(id, comment), err |-> Nil,
            remote |-> remote \o <<"comments.create">>, made |-> <<comment>>]
      ELSE [resp |-> None, err |-> <<"failed to create comment", "googleapi error">>,
            remote |-> remote \o <<"comments.create">>, made |-> <<>>]

\* cm.CreateComment(ctx, req): doc is what Documents.Get answers, driveOk
\* whether Comments.Create succeeds, id the id the service gives.
\* Result: the response or the error, the remote calls made, the comment created
CreateComment(req, doc, driveOk, id) ==
  LET found == FindTextPosition(doc, req.QuotedText)
      anchor == IF req.QuotedText # <<>> /\ found.err = Nil
                  THEN createAnchorJSONWithPosition(found.pos)
                  ELSE NoAnchor
      comment == DriveComment(req.Content, anchor, req.QuotedText)
      remote == (IF req.QuotedText # <<>> THEN <<"documents.get">> ELSE <<>>)
                  \o <<"comments.create">> IN
    IF driveOk
      THEN [resp |-> CommentResponse(id, comment), err |-> Nil,
            remote |-> remote, made |-> <<comment>>]
      ELSE [resp |-> None, err |-> <<"failed to create comment", "googleapi error">>,
            remote |-> remote, made |-> <<>>]

\* the line number is not looked at
CreateAnchoredComment_NoGuard(req, driveOk, id) ==
  LET comment == DriveComment(req.Content, createAnchorJSON(req.LineNumber),
                              req.QuotedText) IN
    IF driveOk
      THEN [resp |-> CommentResponse(id, comment), err |-> Nil,
            remote |-> <<"comments.create">>, made |-> <<comment>>]
      ELSE [resp |-> None,
            err |-> <<"failed to create anchored comment", "googleapi error">>,
            remote |-> <<"comments.create">>, made |-> <<>>]

\* cm.CreateAnchoredComment(ctx, req)
CreateAnchoredComment(req, driveOk, id) ==
  IF req.LineNumber <= 0
    THEN [resp |-> None,
          err |-> <<"line number must be greater than 0 for anchored comments">>,
          remote |-> <<>>, made |-> <<>>]
  ELSE
  LET comment == DriveComment(req.Content, createAnchorJSON(req.LineNumber),
                              req.QuotedText) IN
    IF driveOk
      THEN [resp |-> CommentResponse(id, comment), err |-> Nil,
            remote |-> <<"comments.create">>, made |-> <<comment>>]
      ELSE [resp |-> None,
            err |-> <<"failed to create anchored comment", "googleapi error">>,
            remote |-> <<"comments.create">>, made |-> <<>>]

\* the loop ends at the first request that fails
CM_Step_StopsAtFailure ==
  /\ cmRet = None
  /\ idx < Len(requests)
  /\ \E doc \in Docs, driveOk \in BOOLEAN :
       LET req == requests[idx + 1]
           anchored == req.LineNumber > 0
           r == IF anchored
                  THEN CreateAnchoredComment(req, driveOk, Len(created) + 1)
                  ELSE CreateComment(req, doc, driveOk, Len(created) + 1) IN
         /\ IF r.err # Nil
              THEN /\ errors' = Append(errors, [i |-> idx, err |-> Wrap("comment %d", r.err)])
                   /\ idx' = Len(requests)
                   /\ UNCHANGED responses
              ELSE /\ responses' = Append(responses, r.resp)
                   /\ idx' = idx + 1
                   /\ UNCHANGED errors
         /\ cmLog' = Append(cmLog,
              [fn |-> IF anchored THEN "CreateAnchoredComment" ELSE "CreateComment",
               req |-> req, doc |-> doc, driveOk |-> driveOk, resp |-> r.resp,
               remote |-> r.remote, made |-> r.made])
         /\ created' = created \o r.made
         /\ calls' = calls \o r.remote
  /\ UNCHANGED <<now, file, active, pc, top, phase, loaded, authCode, token,
                 ret, result, trace, pre, startNow, savedAt, prev, hist2,
                 netVars, confVars, lastWritten, requests, cmRet, toolOut>>

\* CreateMultipleComments: one turn of "for i, req := range requests"
CM_Step ==
  /\ cmRet = None
  /\ idx < Len(requests)
  /\ \E doc \in Docs, driveOk \in BOOLEAN :
       LET req == requests[idx + 1]
           anchored == req.LineNumber > 0
           r == IF anchored
                  THEN CreateAnchoredComment(req, driveOk, Len(created) + 1)
                  ELSE CreateComment(req, doc, driveOk, Len(created) + 1) IN
         /\ IF r.err # Nil
              THEN /\ errors' = Append(errors, [i |-> idx, err |-> Wrap("comment %d", r.err)])
                   /\ UNCHANGED responses
              ELSE /\ responses' = Append(responses, r.resp)
                   /\ UNCHANGED errors
         /\ cmLog' = Append(cmLog,
              [fn |-> IF anchored THEN "CreateAnchoredComment" ELSE "CreateComment",
               req |-> req, doc |-> doc, driveOk |-> driveOk, resp |-> r.resp,
               remote |-> r.remote, made |-> r.made])
         /\ created' = created \o r.made
         /\ calls' = calls \o r.remote
  /\ idx' = idx + 1
  /\ UNCHANGED <<now, file, active, pc, top, phase, loaded, authCode, token,
                 ret, result, trace, pre, startNow, savedAt, prev, hist2,
                 netVars, confVars, lastWritten, requests, cmRet, toolOut>>

\* CreateMultipleComments: after the loop
\*   if len(errors) > 0 { return responses, "failed to create %d comments: %v" }
\*   return responses, nil
CM_Return ==
  /\ cmRet = None
  /\ idx = Len(requests)
  /\ cmRet' = [responses |-> responses,
               err |-> IF Len(errors) > 0 THEN <<"failed to create %d comments: %v">>
                       ELSE Nil,
               failed |-> Len(errors)]
  /\ UNCHANGED <<now, file, active, pc, top, phase, loaded, authCode, token,
                 ret, result, trace, pre, startNow, savedAt, prev, hist2,
                 netVars, confVars, lastWritten, requests, idx, responses,
                 errors, cmLog, created, calls, toolOut>>

\* arguments of a create_anchored_comment call
ToolUrls == {"missing", "not a document url", "document url"}
ToolLines == [given : BOOLEAN, v : LineNumbers]
ToolArgs == [url : ToolUrls, content : BOOLEAN, line_number : ToolLines]

\* request.GetInt(key, defaultValue)
GetInt(arg, defaultValue) == IF arg.given THEN arg.v ELSE defaultValue

\* the create_anchored_comment handler of the server; the server makes no batches
Tool_CreateAnchoredComment ==
  /\ toolOut = None
  /\ requests = <<>>
  /\ \E args \in ToolArgs, driveOk \in BOOLEAN :
       LET lineNumber == GetInt(args.line_number, 0)
           req == [FileID |-> "doc1", Content |-> "note", QuotedText |-> <<>>,
                   LineNumber |-> lineNumber, LineLength |-> 1]
           r == CreateAnchoredComment(req, driveOk, Len(created) + 1) IN
         IF args.url = "missing" \/ ~args.content
           THEN /\ toolOut' = [isError |-> TRUE, args |-> args, text |-> "required argument not found"]
                /\ UNCHANGED <<created, calls>>
         ELSE IF lineNumber = 0
           THEN /\ toolOut' = [isError |-> TRUE, args |-> args,
                               text |-> "line_number is required and must be greater than 0"]
                /\ UNCHANGED <<created, calls>>
         ELSE IF args.url # "document url"
           THEN /\ toolOut' = [isError |-> TRUE, args |-> args, text |-> "invalid URL"]
                /\ UNCHANGED <<created, calls>>
         ELSE /\ toolOut' = IF r.err # Nil
                  THEN [isError |-> TRUE, args |-> args,
                        text |-> "failed to create anchored comment"]
                  ELSE [isError |-> FALSE, args |-> args,
                        text |-> "Anchored comment created successfully!"]
              /\ created' = created \o r.made
              /\ calls' = calls \o r.remote
  /\ UNCHANGED <<now, file, active, pc, top, phase, loaded, authCode, token,
                 ret, result, trace, pre, startNow, savedAt, prev, hist2,
                 netVars, confVars, lastWritten, requests, idx, responses,
                 errors, cmRet, cmLog>>

InitComment ==
  /\ now = 0
  /\ file = NoFile
  /\ active = {1}
  /\ InitLocals
  /\ InitNet
  /\ InitConfDone
  /\ requests \in Batches
  /\ idx = 0
  /\ responses = <<>>
  /\ errors = <<>>
  /\ cmRet = None
  /\ cmLog = <<>>
  /\ created = <<>>
  /\ calls = <<>>
  /\ toolOut = None

NextComment ==
  \/ CM_Step
  \/ CM_Return
  \/ Tool_CreateAnchoredComment

SpecComment == InitComment /\ [][NextComment]_vars

\* ---- properties ----

Returned(p, name) == p \in active /\ pc[p] = "idle" /\ top[p] = name
IsCred(f) == f.kind = "json"
Has(tr, ev) == \E i \in 1..Len(tr) : tr[i] = ev
Count(tr, ev) == Cardinality({i \in 1..Len(tr) : tr[i] = ev})
\* the stored credential was past its validity window when the call started
StaleAtStart(p) ==
  IsCred(pre[p]) /\ startNow[p] - pre[p].issued_at > pre[p].expires_in
FreshAtStart(p) ==
  IsCred(pre[p]) /\ startNow[p] - pre[p].issued_at <= pre[p].expires_in

\* C1: GetClient on a stored credential with now - issuedAt > validFor returns
\* no client and the error "token has expired", and the file is gone afterwards.
C1_ExpiredRejectedAndDeleted ==
  \A p \in Procs :
    (Returned(p, "GetClient") /\ StaleAtStart(p)) =>
      /\ result[p].client = NoClient
      /\ result[p].err = <<"token has expired">>
      /\ file = NoFile

\* issuedAt = now - 25h, validFor = 24h
C1_Witness ==
  \E p \in Procs :
    /\ Returned(p, "GetClient") /\ StaleAtStart(p)
    /\ startNow[p] - pre[p].issued_at = ValidFor + 1
    /\ pre[p].expires_in = ValidFor
    /\ file = NoFile

\* C2: GetClient on a readable credential with now - issuedAt <= validFor returns
\* a client and no error, and the file is exactly what it was.
C2_FreshAcceptedFileUntouched ==
  \A p \in Procs :
    (Returned(p, "GetClient") /\ FreshAtStart(p)) =>
      /\ result[p].client # NoClient
      /\ result[p].err = Nil
      /\ file = pre[p]

C2_Witness ==
  \E p \in Procs :
    /\ Returned(p, "GetClient") /\ FreshAtStart(p)
    /\ startNow[p] - pre[p].issued_at = pre[p].expires_in
    /\ result[p].client # NoClient
    /\ file = pre[p]

\* C3: GetClient with no credential file fails with "no saved token found",
\* returns no client, never calls the authenticator, leaves the file absent,
\* and hands control back to its caller.
C3_MissingFileNotFound ==
  \A p \in Procs :
    (p \in active /\ top[p] = "GetClient" /\ pre[p] = NoFile) =>
      /\ ~Has(trace[p], "authenticator:ok")
      /\ ~Has(trace[p], "authenticator:err")
      /\ file = NoFile
      /\ pc[p] \in {"gc_load", "gc_ret", "idle"}
      /\ pc[p] = "idle" =>
           /\ result[p].client = NoClient
           /\ Head(result[p].err) = "no saved token found"

C3_Witness ==
  \E p \in Procs :
    /\ Returned(p, "GetClient") /\ pre[p] = NoFile
    /\ result[p].err = <<"no saved token found", "failed to read token file", "ENOENT">>
    /\ file = NoFile

NetworkFree(tr) ==
  /\ ~Has(tr, "authenticator:ok") /\ ~Has(tr, "authenticator:err")
  /\ ~Has(tr, "exchange:ok") /\ ~Has(tr, "exchange:err")

C4_ShortCircuit ==
  \A p \in Procs :
    /\ (p \in active /\ top[p] = "Authenticate" /\ pre[p] # NoFile) =>
         /\ NetworkFree(trace[p])
         /\ file = pre[p]
         /\ pc[p] \in {"au_stat", "au_ret", "idle"}
         /\ pc[p] = "idle" => result[p].err = Nil
    /\ (p \in active /\ top[p] = "Authenticate" /\ prev[p] # None
          /\ prev[p] = [name |-> "Authenticate", failed |-> FALSE]) =>
         NetworkFree(trace[p])

C4_ExistingFileKept ==
  \A p \in Procs :
    (top[p] = "Authenticate" /\ top'[p] = "Authenticate" /\ pre'[p] # NoFile) =>
      file' = file

\* C4: when a credential file exists (valid, expired or malformed) Authenticate
\* returns success with no authenticator call and no token exchange and leaves
\* the file as it is; steps of Authenticate calls never remove or replace an
\* existing file, and an Authenticate after a successful Authenticate makes no
\* network call.
C4_AuthenticateSkipsWhenFileExists ==
  []C4_ShortCircuit /\ [][C4_ExistingFileKept]_vars

\* a second Authenticate, right after a successful one, on an expired credential
C4_Witness ==
  \E p \in Procs :
    /\ Returned(p, "Authenticate") /\ StaleAtStart(p)
    /\ prev[p] = [name |-> "Authenticate", failed |-> FALSE]
    /\ result[p].err = Nil
    /\ file = pre[p]

\* C5: Authenticate started without a file, whose authenticator fails or whose
\* token exchange is rejected, returns an error and there is no file afterwards.
C5_FailedAuthenticateWritesNothing ==
  \A p \in Procs :
    (p \in active /\ top[p] = "Authenticate" /\ pre[p] = NoFile
       /\ (Has(trace[p], "authenticator:err") \/ Has(trace[p], "exchange:err"))) =>
      /\ file = NoFile
      /\ pc[p] = "idle" => result[p].err # Nil

C5_Witness ==
  \E p \in Procs :
    /\ Returned(p, "Authenticate") /\ pre[p] = NoFile
    /\ Has(trace[p], "authenticator:ok") /\ Has(trace[p], "exchange:err")
    /\ result[p].err = <<"oauth2: cannot fetch token">>
    /\ file = NoFile

EnvSucceeds(tr) == ~Has(tr, "authenticator:err") /\ ~Has(tr, "exchange:err")
IsCallEv(e) == e \in {"GetClient", "Authenticate"}
Calls(tr) == SelectSeq(tr, IsCallEv)
IsPrefix(a, b) == Len(a) <= Len(b) /\ a = SubSeq(b, 1, Len(a))

C8_CompositeAtMostOneRetry ==
  \A p \in Procs :
    (p \in active /\ top[p] = "GetOrAuthenticateClient") =>
      /\ IsPrefix(Calls(trace[p]), <<"GetClient", "Authenticate", "GetClient">>)
      /\ (Len(trace[p]) >= 2 /\ trace[p][2] = "GetClient:ok") =>
           /\ trace[p] = <<"GetClient", "GetClient:ok">>
           /\ pc[p] = "idle"
           /\ result[p].err = Nil /\ result[p].client # NoClient
      /\ Has(trace[p], "Authenticate:err") =>
           /\ Calls(trace[p]) = <<"GetClient", "Authenticate">>
           /\ pc[p] = "idle"
           /\ result[p].client = NoClient
           /\ ret[p].err # Nil
           /\ result[p].err = <<"authentication failed">> \o ret[p].err
      /\ Count(trace[p], "GetClient:err") = 2 =>
           /\ Calls(trace[p]) = <<"GetClient", "Authenticate", "GetClient">>
           /\ pc[p] = "idle"
           /\ result[p] = ret[p]
           /\ result[p].err # Nil /\ result[p].client = NoClient

\* the second GetClient failed and the call ended there
C8_Witness ==
  \E p \in Procs :
    /\ Returned(p, "GetOrAuthenticateClient")
    /\ Count(trace[p], "GetClient:err") = 2
    /\ Count(trace[p], "Authenticate") = 1
    /\ result[p].err # Nil

MissingStartOutcome(p) ==
  /\ Count(trace[p], "authenticator:ok") + Count(trace[p], "authenticator:err") = 1
  /\ Has(trace[p], "authenticator:err") =>
       /\ ~Has(trace[p], "exchange:ok") /\ ~Has(trace[p], "exchange:err")
       /\ result[p].client = NoClient /\ result[p].err # Nil
       /\ ~IsCred(file)
  /\ Has(trace[p], "authenticator:ok") =>
       Count(trace[p], "exchange:ok") + Count(trace[p], "exchange:err") = 1
  /\ Has(trace[p], "exchange:err") =>
       /\ result[p].client = NoClient /\ result[p].err # Nil
       /\ ~IsCred(file)
  /\ Has(trace[p], "exchange:ok") =>
       /\ result[p].client # NoClient /\ result[p].err = Nil
       /\ IsCred(file) /\ file.issued_at = savedAt[p]

\* GetOrAuthenticateClient started without a file has MissingStartOutcome
MissingStartHasOutcome ==
  \A p \in Procs :
    (Returned(p, "GetOrAuthenticateClient") /\ pre[p] = NoFile) =>
      MissingStartOutcome(p)

\* C10: GetOrAuthenticateClient started with a malformed file has the outcome
\* it has when started without a file: authenticator invoked, exchange
\* performed, client or error returned and final credential, for the same
\* behaviour of the authenticator and the endpoint.
C10_CorruptLikeMissing ==
  \A p \in Procs :
    (Returned(p, "GetOrAuthenticateClient") /\ pre[p] = Garbage) =>
      MissingStartOutcome(p)

\* GetClient was called right after a successful Authenticate that had started on file f
AfterAuthenticateOn(p, f) ==
  /\ Returned(p, "GetClient")
  /\ prev[p] = [name |-> "Authenticate", failed |-> FALSE]
  /\ prevCtx[p] # None
  /\ prevCtx[p].file = f
  /\ ~prevCtx[p].idled

\* from a missing file, Authenticate followed by GetClient yields a client
MissingRecoveredByAuthenticate ==
  \A p \in Procs :
    AfterAuthenticateOn(p, NoFile) =>
      result[p].client # NoClient /\ result[p].err = Nil

\* C11: from a missing and from a malformed credential file, a successful
\* Authenticate followed by GetClient yields a client.
C11_RecoverableByAuthenticate ==
  \A p \in Procs :
    (AfterAuthenticateOn(p, NoFile) \/ AfterAuthenticateOn(p, Garbage)) =>
      result[p].client # NoClient /\ result[p].err = Nil

C12_WindowFixed ==
  IsCred(file) =>
    /\ file.expires_in = 24
    /\ file.issued_at <= now
    /\ file = lastWritten

C12_WrittenOnlyAfterExchange ==
  (file' # file /\ file' # NoFile) =>
    \E p \in Procs :
      /\ pc[p] \in {"au_save", "au_write"}
      /\ trace[p][Len(trace[p])] = "exchange:ok"
      /\ IsCred(file') => (file'.issued_at = now /\ file'.expires_in = 24)

\* C12: the stored credential always has the issuedAt and validFor that the
\* step persisting it wrote, validFor being 24h; the file is created or
\* overwritten only by the saveToken that follows a successful exchange, so
\* GetClient, a short-circuited or a failed Authenticate never move the window.
C12_ValidityNeverExtended ==
  []C12_WindowFixed /\ [][C12_WrittenOnlyAfterExchange]_vars

\* a day later the credential has been used again and still carries its first issuedAt
C12_Witness ==
  \E p \in Procs :
    /\ Returned(p, "GetClient")
    /\ result[p].err = Nil
    /\ prev[p] # None /\ prev[p].name = "Authenticate"
    /\ IsCred(file)
    /\ file.issued_at + ValidFor = now

\* the failure condition that made the call of p fail, from what happened
Condition(p) ==
  IF Has(trace[p], "exchange:err") THEN "exchange"
  ELSE IF Has(trace[p], "authenticator:err") THEN "interactive"
  ELSE IF pre[p] = NoFile THEN "no file"
  ELSE IF IsCred(pre[p]) THEN "expired"
  ELSE "corrupt"

Failed(p) == p \in active /\ pc[p] = "idle" /\ top[p] # "none" /\ result[p].err # Nil

\* the error has a dynamic type of its own or wraps a cause
CarriesCause(err) ==
  Len(err) >= 2 \/ Kinds(err)[Len(err)] # "*errors.errorString"

InBrowser(p) == pc[p] \in {"b_wait", "b_shutdown", "b_drain"}

\* C15: whenever a caller is not inside BrowserAuthenticator.Authenticate, its
\* listener is not open and it does not hold port 8089: the listener never
\* outlives the interactive step.
C15_ListenerNeverOutlivesStep ==
  \A p \in Procs :
    ~InBrowser(p) => (port # p /\ lst[p] # "listening")

\* the interactive step has returned a code after serving its request, the port is free
C15_Witness ==
  \E p \in Procs :
    /\ pc[p] = "au_exchange"
    /\ Has(trace[p], "authenticator:ok")
    /\ served[p] = 1
    /\ lst[p] = "closed"
    /\ port = 0

\* C16: once the interactive step has received its code, it returns, whatever
\* further /callback requests arrive before the shutdown completes.
C16_FurtherRequestHarmless ==
  \A p \in Procs :
    (pc[p] \in {"b_shutdown", "b_drain"}) ~> (pc[p] = "au_exchange")

\* C17: a caller whose bind of port 8089 failed gets an error back from Authenticate.
C17_BindFailureSurfaces ==
  \A p \in Procs :
    (lst[p] = "failed") ~>
      (pc[p] = "idle" /\ top[p] = "Authenticate" /\ result[p] # None /\ result[p].err # Nil)

\* no call of saveToken is between its start and the end of its WriteFile
NoWriteInProgress == \A p \in active : pc[p] \notin {"au_save", "au_write"}

\* C18: once all concurrent writes have completed, the file holds exactly the
\* complete credential of the write that finished last.
C18_LastWriterWins ==
  (NoWriteInProgress /\ lastWritten # None) => file = lastWritten

\* the item has a non-empty value in the environment or in a file that was read
Present(k) ==
  \/ cfgIn.env[k] \notin {Unset, ""}
  \/ cfgIn.fstate = "read" /\ cfgIn.file[k] \notin {Unset, ""}

\* C19: LoadFromFile fails with "GOOGLE_CLIENT_ID is required" whenever the
\* client id is absent (also when the secret is absent too), with
\* "GOOGLE_CLIENT_SECRET is required" when only the secret is absent, and
\* returns a Config exactly when both are present, file or no file.
C19_LoadFailsFast ==
  cfgOut # None =>
    /\ ~Present("GOOGLE_CLIENT_ID") =>
         (cfgOut.err = <<"GOOGLE_CLIENT_ID is required">> /\ cfgOut.config = None)
    /\ (Present("GOOGLE_CLIENT_ID") /\ ~Present("GOOGLE_CLIENT_SECRET")) =>
         (cfgOut.err = <<"GOOGLE_CLIENT_SECRET is required">> /\ cfgOut.config = None)
    /\ (Present("GOOGLE_CLIENT_ID") /\ Present("GOOGLE_CLIENT_SECRET")) =>
         (cfgOut.err = Nil /\ cfgOut.config # None)

\* both items absent: the client id is the one reported
C19_Witness ==
  /\ cfgOut # None
  /\ cfgIn.fstate = "read"
  /\ ~Present("GOOGLE_CLIENT_ID") /\ ~Present("GOOGLE_CLIENT_SECRET")
  /\ cfgOut.err = <<"GOOGLE_CLIENT_ID is required">>

\* C20: the AuthManager built by New() has the client id and secret of the
\* environment (empty when unset), the redirect URL
\* http://localhost:8089/callback, the two scopes Docs read-only and
\* https://www.googleapis.com/auth/drive, and a token path ending in
\* .google-doc-review/token.json.
C20_NewCarriesConfiguration ==
  (am # None /\ ~am.fatal) =>
    /\ am.ClientID = (IF cfgIn.env["GOOGLE_CLIENT_ID"] = Unset THEN ""
                      ELSE cfgIn.env["GOOGLE_CLIENT_ID"])
    /\ am.ClientSecret = (IF cfgIn.env["GOOGLE_CLIENT_SECRET"] = Unset THEN ""
                          ELSE cfgIn.env["GOOGLE_CLIENT_SECRET"])
    /\ am.RedirectURL = "http://localhost:8089/callback"
    /\ am.Scopes = <<"https://www.googleapis.com/auth/documents.readonly",
                     "https://www.googleapis.com/auth/drive">>
    /\ Len(am.tokenPath) >= 2
    /\ SubSeq(am.tokenPath, Len(am.tokenPath) - 1, Len(am.tokenPath)) =
         <<".google-doc-review", "token.json">>

\* GetClient has loaded a credential and decided on it
Decided(p) == p \in active /\ pc[p] = "gc_ret" /\ loaded[p] # None

\* C21: GetClient rejects a loaded credential iff now - issuedAt > validFor;
\* at an elapsed time of exactly validFor it returns a client and the file
\* still holds that credential.
C21_ExpiryTestIsStrict ==
  \A p \in Procs :
    Decided(p) =>
      /\ (now - loaded[p].IssuedAt.wall > loaded[p].ExpiresIn) <=>
           (ret[p].err = <<"token has expired">>)
      /\ (now - loaded[p].IssuedAt.wall = loaded[p].ExpiresIn) =>
           /\ ret[p].client # NoClient
           /\ ret[p].err = Nil
           /\ IsCred(file)
           /\ file.issued_at = loaded[p].IssuedAt.wall

\* exactly 24h after a credential with validFor = 24h was issued
C21_Witness ==
  \E p \in Procs :
    /\ Decided(p)
    /\ loaded[p].ExpiresIn = ValidFor
    /\ now - loaded[p].IssuedAt.wall = ValidFor
    /\ ret[p].client # NoClient
    /\ IsCred(file)

C22_DeletedOnlyWhenFoundExpired ==
  (file # NoFile /\ file' = NoFile) =>
    \E p \in Procs :
      /\ pc[p] = "gc_check" /\ pc'[p] = "gc_ret"
      /\ now - loaded[p].IssuedAt.wall > loaded[p].ExpiresIn
      /\ ret'[p].err = <<"token has expired">>

\* C22: the only step that deletes the credential file is GetClient's, after it
\* loaded the credential and found it expired; no step of GetClient on a
\* missing, malformed or fresh file and no step of Authenticate deletes it.
C22_SingleDeleter == [][C22_DeletedOnlyWhenFoundExpired]_vars

\* GetClient inside GetOrAuthenticateClient has just deleted an expired credential
C22_Witness ==
  \E p \in Procs :
    /\ p \in active /\ pc[p] = "gc_ret" /\ top[p] = "GetOrAuthenticateClient"
    /\ trace[p] = <<"GetClient", "remove">>
    /\ IsCred(pre[p])
    /\ file = NoFile

\* p is past the wait for the code, or back from the call
PastTheWait(p) ==
  \/ pc[p] \in {"b_shutdown", "b_drain", "au_exchange", "au_save", "au_write",
                "au_ret", "gc_load", "gc_check", "gc_ret"} /\ phase[p] # 1
  \/ pc[p] = "idle" /\ top[p] # "none"

C23_NoReturnWithoutRequest ==
  reqs = 0 => \A p \in active : pre[p] = NoFile => ~PastTheWait(p)

C23_WaitEndsOnlyByRequest ==
  \A p \in Procs :
    (pc[p] = "b_wait" /\ pc'[p] # "b_wait") =>
      /\ sending[p] # <<>>
      /\ authCode'[p] = Head(sending[p])
      /\ pc'[p] = "b_shutdown"

\* C23: as long as no /callback request has arrived, a caller that found no
\* token file has not returned from BrowserAuthenticator.Authenticate, nor from
\* Authenticate or GetOrAuthenticateClient; the wait for the code ends only by
\* receiving the code of a request.
C23_NoTimeoutOnCallbackWait ==
  []C23_NoReturnWithoutRequest /\ [][C23_WaitEndsOnlyByRequest]_vars

\* both callers wait, one of them without a listener, and no request has come
C23_Witness ==
  /\ reqs = 0
  /\ \A p \in Racers : pc[p] = "b_wait"
  /\ \E p \in Racers : top[p] = "GetOrAuthenticateClient" /\ lst[p] = "listening"

\* the responses of the log entries that have one, in order
Successes(log) ==
  LET ok == SelectSeq(log, LAMBDA e : e.resp # None) IN
    [k \in 1..Len(ok) |-> ok[k].resp]

\* C24: CreateMultipleComments takes the requests in order and goes on after a
\* failure; a request with LineNumber > 0 goes to CreateAnchoredComment, any
\* other to CreateComment; what it returns is the responses of the successful
\* requests in request order, an error iff some request failed, and successes
\* plus failures make the number of requests.
C24_BatchProcessesEveryRequest ==
  /\ Len(cmLog) = idx
  /\ \A k \in 1..Len(cmLog) :
       /\ cmLog[k].req = requests[k]
       /\ cmLog[k].fn = (IF requests[k].LineNumber > 0 THEN "CreateAnchoredComment"
                         ELSE "CreateComment")
       /\ (cmLog[k].resp # None) <=> cmLog[k].driveOk
  /\ cmRet # None =>
       /\ Len(cmLog) = Len(requests)
       /\ cmRet.responses = Successes(cmLog)
       /\ (cmRet.err # Nil) <=> (\E k \in 1..Len(cmLog) : ~cmLog[k].driveOk)
       /\ Len(cmRet.responses) + cmRet.failed = Len(requests)
       /\ cmRet.failed = Cardinality({k \in 1..Len(cmLog) : ~cmLog[k].driveOk})

\* the first request failed, the second, an anchored one, was still made
C24_Witness ==
  /\ cmRet # None
  /\ Len(requests) = 2
  /\ ~cmLog[1].driveOk
  /\ cmLog[2].fn = "CreateAnchoredComment"
  /\ Len(cmRet.responses) = 1
  /\ cmRet.err # Nil

\* C25: no comment anchored to a line <= 0 exists; a create_anchored_comment
\* call whose line_number is missing, zero or negative gives an error result,
\* without a remote call and without a comment.
C25_NoAnchorForNonPositiveLine ==
  /\ \A k \in 1..Len(created) :
       created[k].Anchor.region = "line" => created[k].Anchor.line > 0
  /\ (toolOut # None
        /\ (~toolOut.args.line_number.given \/ toolOut.args.line_number.v <= 0)) =>
       /\ toolOut.isError
       /\ created = <<>>
       /\ calls = <<>>

\* the tool was called with a document url, a content and line_number = -1
C25_Witness ==
  /\ toolOut # None
  /\ toolOut.args.url = "document url"
  /\ toolOut.args.content
  /\ toolOut.args.line_number.given
  /\ toolOut.args.line_number.v < 0
  /\ toolOut.isError
  /\ calls = <<>>

\* the quoted text is in none of the text runs of the document
NotInDocument(doc, t) ==
  \A k \in 1..Len(doc.runs) :
    \A i \in 1..(Len(doc.runs[k].Content) - Len(t) + 1) :
      SubSeq(doc.runs[k].Content, i, i + Len(t) - 1) # t

\* C26: CreateComment always submits the comment and fails iff the creation
\* call fails; with a quoted text whose position is not found, or a document
\* that cannot be fetched, the comment created has no anchor and has the
\* quoted text attached.
C26_AnchoringIsBestEffort ==
  \A k \in 1..Len(cmLog) :
    cmLog[k].fn = "CreateComment" =>
      /\ cmLog[k].remote[Len(cmLog[k].remote)] = "comments.create"
      /\ (cmLog[k].resp = None) <=> ~cmLog[k].driveOk
      /\ (cmLog[k].driveOk /\ cmLog[k].req.QuotedText # <<>>
            /\ (~cmLog[k].doc.ok \/ NotInDocument(cmLog[k].doc, cmLog[k].req.QuotedText))) =>
           cmLog[k].made = <<[Content |-> cmLog[k].req.Content,
                               Anchor |-> NoAnchor,
                               QuotedFileContent |-> cmLog[k].req.QuotedText]>>

\* a comment quoting a text that is not in the fetched document was created
C26_Witness ==
  \E k \in 1..Len(cmLog) :
    /\ cmLog[k].fn = "CreateComment"
    /\ cmLog[k].req.QuotedText = <<"z">>
    /\ cmLog[k].doc.ok /\ cmLog[k].doc.runs # <<>>
    /\ cmLog[k].resp # None
    /\ cmLog[k].resp.Anchor = NoAnchor

C27_StoredCredentialDeleted ==
  (IsCred(file) /\ file' = NoFile) =>
    now - file.issued_at > file.expires_in

\* C27: whenever GetClient deletes a stored credential, that credential, the
\* one in the file at the moment of the deletion, is expired.
C27_OnlyExpiredCredentialDeleted == [][C27_StoredCredentialDeleted]_vars

\* C28 as stated: of two concurrent Authenticate calls started without a file,
\* at most one performs a token exchange and writes the file.
C28_AtMostOneExchanges ==
  \A p, q \in Procs :
    (p # q /\ p \in active /\ q \in active
       /\ top[p] = "Authenticate" /\ top[q] = "Authenticate"
       /\ pre[p] = NoFile /\ pre[q] = NoFile) =>
      ~(Has(trace[p], "exchange:ok") /\ Has(trace[q], "exchange:ok"))

C28_StartedWithFile ==
  \A p \in Procs :
    (p \in active /\ top[p] = "Authenticate" /\ pre[p] # NoFile) =>
      /\ ~Has(trace[p], "authenticator:ok") /\ ~Has(trace[p], "authenticator:err")
      /\ ~Has(trace[p], "exchange:ok") /\ ~Has(trace[p], "exchange:err")
      /\ ~Has(trace[p], "saveToken")
      /\ pc[p] \in {"au_stat", "au_ret", "idle"}

C28_WriterStartedWithoutFile ==
  file' # file =>
    \E p \in Procs :
      /\ pc[p] \in {"au_save", "au_write"} /\ pc'[p] # pc[p]
      /\ pre[p] = NoFile

\* C28 amended: also under interleaving, an Authenticate call that starts when
\* a token file exists makes no authenticator call, no exchange and no write,
\* and the file is changed only by calls that started without a file; two
\* calls that both start before the file exists may both exchange and both
\* write, the later write replacing the earlier one.
C28_NoOverwriteByLaterCalls ==
  []C28_StartedWithFile /\ [][C28_WriterStartedWithoutFile]_vars

\* both callers started without a file and both have written it
C28_Witness ==
  /\ \A p \in Racers :
       /\ top[p] = "Authenticate" /\ pre[p] = NoFile
       /\ Has(trace[p], "saveToken")
  /\ IsCred(file)

C29_NoErrorOutcome ==
  \A p \in active :
    /\ ~Has(trace[p], "authenticator:err")
    /\ Has(trace[p], "authenticator:ok") => authCode[p] \in Codes
    /\ Has(trace[p], "Authenticate:err") => Has(trace[p], "exchange:err")
    /\ (pc[p] = "idle" /\ top[p] = "Authenticate" /\ result[p].err # Nil) =>
         result[p].err = <<"oauth2: cannot fetch token">>

C29_CodePassedOn ==
  \A p \in Procs :
    /\ (pc[p] = "b_wait" /\ pc'[p] # "b_wait") => authCode'[p] = Head(sending[p])
    /\ (pc[p] \in {"b_shutdown", "b_drain"}) => authCode'[p] = authCode[p]
    /\ (pc[p] = "b_drain" /\ pc'[p] # "b_drain") => pc'[p] = "au_exchange"

WithExpiry(f, e) == [f EXCEPT !.token.expiry = e]

\* C30: what GetClient returned and did to the file for the stored credential
\* is what it returns and does, at the same time, for every credential that
\* differs from it only in the provider-reported expiry of the token.
C30_ProviderExpiryIgnored ==
  \A p \in Procs :
    (Returned(p, "GetClient") /\ IsCred(pre[p])) =>
      \A e \in InitExpiry :
        LET twin == GetClient(WithExpiry(pre[p], e), startNow[p]) IN
          /\ twin.err = result[p].err
          /\ (twin.client = NoClient) <=> (result[p].client = NoClient)
          /\ (twin.file = NoFile) <=> (file = NoFile)
          /\ twin.file # NoFile => file = pre[p]

\* a credential whose provider expiry has passed was accepted within its window
C30_Witness ==
  \E p \in Procs :
    /\ Returned(p, "GetClient") /\ IsCred(pre[p])
    /\ pre[p].token.expiry < startNow[p]
    /\ startNow[p] - pre[p].issued_at <= pre[p].expires_in
    /\ result[p].err = Nil
    /\ file = pre[p]

====
